---- MODULE Spec2Model ----
(***************************************************************************)
(* A model of vroom's cvrp::CrossExchange local-search operator            *)
(* (problems/cvrp/operators/cross_exchange.cpp), of the Solution State it  *)
(* reads, of the descent loop that drives it, and of the explicit-matrix   *)
(* branch of io::parse (utils/input_parser.cpp).                           *)
(*                                                                         *)
(* Ranks are 0-based as in the C++ code; TLA+ sequences are 1-based, so    *)
(* At(route, k) reads position k.                                          *)
(***************************************************************************)
EXTENDS Integers, Sequences, FiniteSets, TLC

\* ------------------------------------------------------------- bounds ----

\* Matrix entries are 0 or 1.
CostValues == {0, 1}

\* Number of apply() calls explored by the operator-level specification.
MaxMoves == 2

\* Every vehicle's capacity is its initial load plus a slack in
\* (0..MaxSlack) x (0..MaxSlack).
MaxSlack == 1

\* ------------------------------------------------------ problem instance --

Locations == {0, 1, 2}

Vehicles == {0, 1, 2}

\* Vehicles whose initial route is long enough (>= 2) to take part in a
\* CrossExchange; vehicle 2 carries a single job.
ActiveVehicles == {0, 1}

Jobs == {0, 1, 2, 3, 4, 5}

\* The assignment the construction heuristic hands to the local search.
InitialRoutes == [v \in Vehicles |->
                    CASE v = 0 -> <<0, 1, 2>>
                      [] v = 1 -> <<3, 4>>
                      [] OTHER -> <<5>>]

VARIABLES
    input,        \* _input: matrix, vehicles, jobs (immutable after Init)
    routes,       \* the RawRoute of every vehicle
    sol_state,    \* utils::SolutionState: fwd_amounts, edge_costs_around_edge
    op,           \* the CrossExchange under evaluation (<<>> when none)
    pc,           \* position of the driver
    moves,        \* apply() calls so far
    valid,        \* what is_valid() returned for the current operator
    pre_routes,   \* routes when the current operator was constructed
    pre_state,    \* sol_state when the current operator was constructed
    json,         \* the document io::parse reads
    parser        \* io::parse: its position, loop index and outcome

ls_vars == <<input, routes, sol_state, op, pc, valid, moves, pre_routes, pre_state>>

vars == <<input, routes, sol_state, op, pc, valid, moves, pre_routes, pre_state,
          json, parser>>

\* ------------------------------------------------------------ helpers ----

At(route, k) == route[k + 1]

Size(route) == Len(route)

Max(a, b) == IF a >= b THEN a ELSE b

\* std::swap of positions i and j (0-based) of a vector.
SwapAt(route, i, j) ==
    [route EXCEPT ![i + 1] = route[j + 1], ![j + 1] = route[i + 1]]

\* Amount: a vector of integers, added, subtracted and compared
\* componentwise.
ZeroAmount == <<0, 0>>

AmountAdd(a, b) == [i \in DOMAIN a |-> a[i] + b[i]]

AmountSub(a, b) == [i \in DOMAIN a |-> a[i] - b[i]]

AmountLeq(a, b) == \A i \in DOMAIN a : a[i] <= b[i]

\* Vehicle::has_start / has_end: an optional Location is a sequence of
\* length 0 or 1.
HasStart(v) == Len(v.start) > 0

HasEnd(v) == Len(v.end) > 0

\* Input::vehicle_ok_with_job: the precomputed skill compatibility.
VehicleOkWithJob(inp, v, j) == inp.jobs[j].skills \subseteq inp.vehicles[v].skills

\* ------------------------------------------------------ Solution State ----

\* Matrix index of the position before rank k of vehicle v's route: the
\* job at k-1, or the vehicle's start; <<>> when there is none.
PrevIndex(inp, v, route, k) ==
    IF k = 0
    THEN inp.vehicles[v].start
    ELSE <<inp.jobs[At(route, k - 1)].index>>

\* Matrix index of the position after rank k: the job at k+1, or the
\* vehicle's end; <<>> when there is none.
NextIndex(inp, v, route, k) ==
    IF k = Size(route) - 1
    THEN inp.vehicles[v].end
    ELSE <<inp.jobs[At(route, k + 1)].index>>

CostFrom(inp, from, to) == IF from = <<>> THEN 0 ELSE inp.matrix[from[1]][to]

CostTo(inp, from, to) == IF to = <<>> THEN 0 ELSE inp.matrix[from][to[1]]

\* fwd_amounts[v][k] = sum of the amounts of the jobs at ranks 0..k.
RECURSIVE FwdAmount(_, _, _)
FwdAmount(inp, route, k) ==
    IF k < 0
    THEN ZeroAmount
    ELSE AmountAdd(FwdAmount(inp, route, k - 1), inp.jobs[At(route, k)].amount)

FwdAmounts(inp, route) ==
    [i \in 1..Size(route) |-> FwdAmount(inp, route, i - 1)]

\* edge_costs_around_edge[v][k]: the cost of entering rank k plus the cost
\* of leaving rank k+1, the edge (k, k+1) itself excluded.
EdgeCostsAroundEdge(inp, v, route) ==
    [i \in 1..(Size(route) - 1) |->
        CostFrom(inp, PrevIndex(inp, v, route, i - 1),
                 inp.jobs[At(route, i - 1)].index)
        + CostTo(inp, inp.jobs[At(route, i)].index,
                 NextIndex(inp, v, route, i))]

BuildState(inp, rts) ==
    [fwd_amounts |-> [v \in Vehicles |-> FwdAmounts(inp, rts[v])],
     edge_costs_around_edge |->
         [v \in Vehicles |-> EdgeCostsAroundEdge(inp, v, rts[v])]]

\* The driver's rebuild after an accepted move: only the vehicles in
\* `candidates` are recomputed.
UpdateState(inp, rts, ss, candidates) ==
    LET fresh == BuildState(inp, rts)
    IN  [fwd_amounts |->
             [v \in Vehicles |-> IF v \in candidates
                                 THEN fresh.fwd_amounts[v]
                                 ELSE ss.fwd_amounts[v]],
         edge_costs_around_edge |->
             [v \in Vehicles |-> IF v \in candidates
                                 THEN fresh.edge_costs_around_edge[v]
                                 ELSE ss.edge_costs_around_edge[v]]]

\* ---------------------------------------------------------- route cost ----

RECURSIVE InnerCost(_, _, _)
InnerCost(inp, route, k) ==
    IF k >= Size(route) - 1
    THEN 0
    ELSE inp.matrix[inp.jobs[At(route, k)].index][inp.jobs[At(route, k + 1)].index]
         + InnerCost(inp, route, k + 1)

\* Travel cost of one route: start -> first job, job -> job, last -> end.
RouteCost(inp, v, route) ==
    IF Size(route) = 0
    THEN 0
    ELSE CostFrom(inp, inp.vehicles[v].start, inp.jobs[At(route, 0)].index)
         + InnerCost(inp, route, 0)
         + CostTo(inp, inp.jobs[At(route, Size(route) - 1)].index,
                  inp.vehicles[v].end)

RECURSIVE SumCost(_, _, _)
SumCost(inp, rts, vs) ==
    IF vs = {}
    THEN 0
    ELSE LET v == CHOOSE x \in vs : TRUE
         IN  RouteCost(inp, v, rts[v]) + SumCost(inp, rts, vs \ {v})

TotalCost(inp, rts) == SumCost(inp, rts, Vehicles)

RouteLoad(inp, route) == FwdAmount(inp, route, Size(route) - 1)

\* ------------------------------------------------------- CrossExchange ----

\* The constructor's assertions.
\* The constructor's assertions with the rank allowed on the last job.
PreconditionLastRank(rts, s_vehicle, s_rank, t_vehicle, t_rank) ==
    /\ s_vehicle # t_vehicle
    /\ Size(rts[s_vehicle]) >= 2
    /\ Size(rts[t_vehicle]) >= 2
    /\ s_rank < Size(rts[s_vehicle])
    /\ t_rank < Size(rts[t_vehicle])

Precondition(rts, s_vehicle, s_rank, t_vehicle, t_rank) ==
    /\ s_vehicle # t_vehicle
    /\ Size(rts[s_vehicle]) >= 2
    /\ Size(rts[t_vehicle]) >= 2
    /\ s_rank < Size(rts[s_vehicle]) - 1
    /\ t_rank < Size(rts[t_vehicle]) - 1

\* The object the constructor builds: both reversal flags false, no gain
\* computed yet (the gain members are not read before compute_gain()).
CrossExchange(s_vehicle, s_rank, t_vehicle, t_rank) ==
    [s_vehicle |-> s_vehicle, s_rank |-> s_rank,
     t_vehicle |-> t_vehicle, t_rank |-> t_rank,
     reverse_s_edge |-> FALSE, reverse_t_edge |-> FALSE,
     normal_s_gain |-> 0, reversed_s_gain |-> 0,
     normal_t_gain |-> 0, reversed_t_gain |-> 0,
     stored_gain |-> 0, gain_computed |-> FALSE]

\* Cost of entering, in the source route, an edge whose first job has
\* matrix index `index` (previous_cost / reverse_previous_cost, source side).
SPreviousCost(inp, rts, o, index) ==
    LET v_source == inp.vehicles[o.s_vehicle]
        s_route  == rts[o.s_vehicle]
    IN  IF o.s_rank = 0
        THEN IF HasStart(v_source)
             THEN inp.matrix[v_source.start[1]][index]
             ELSE 0
        ELSE inp.matrix[inp.jobs[At(s_route, o.s_rank - 1)].index][index]

\* SNextCost with the vehicle's end forgotten at the last edge.
SNextCostNoEnd(inp, rts, o, index) ==
    LET s_route == rts[o.s_vehicle]
    IN  IF o.s_rank = Size(s_route) - 2
        THEN 0
        ELSE inp.matrix[index][inp.jobs[At(s_route, o.s_rank + 2)].index]

\* Cost of leaving, in the source route, an edge whose last job has matrix
\* index `index` (next_cost / reverse_next_cost, source side).
SNextCost(inp, rts, o, index) ==
    LET v_source == inp.vehicles[o.s_vehicle]
        s_route  == rts[o.s_vehicle]
    IN  IF o.s_rank = Size(s_route) - 2
        THEN IF HasEnd(v_source)
             THEN inp.matrix[index][v_source.end[1]]
             ELSE 0
        ELSE inp.matrix[index][inp.jobs[At(s_route, o.s_rank + 2)].index]

\* TPreviousCost with the vehicle's start forgotten at rank 0.
TPreviousCostNoStart(inp, rts, o, index) ==
    LET t_route == rts[o.t_vehicle]
    IN  IF o.t_rank = 0
        THEN 0
        ELSE inp.matrix[inp.jobs[At(t_route, o.t_rank - 1)].index][index]

\* The same two costs on the target side.
TPreviousCost(inp, rts, o, index) ==
    LET v_target == inp.vehicles[o.t_vehicle]
        t_route  == rts[o.t_vehicle]
    IN  IF o.t_rank = 0
        THEN IF HasStart(v_target)
             THEN inp.matrix[v_target.start[1]][index]
             ELSE 0
        ELSE inp.matrix[inp.jobs[At(t_route, o.t_rank - 1)].index][index]

\* TNextCost reading the matrix from the neighbour to the job.
TNextCostTransposed(inp, rts, o, index) ==
    LET v_target == inp.vehicles[o.t_vehicle]
        t_route  == rts[o.t_vehicle]
    IN  IF o.t_rank = Size(t_route) - 2
        THEN IF HasEnd(v_target)
             THEN inp.matrix[v_target.end[1]][index]
             ELSE 0
        ELSE inp.matrix[inp.jobs[At(t_route, o.t_rank + 2)].index][index]

TNextCost(inp, rts, o, index) ==
    LET v_target == inp.vehicles[o.t_vehicle]
        t_route  == rts[o.t_vehicle]
    IN  IF o.t_rank = Size(t_route) - 2
        THEN IF HasEnd(v_target)
             THEN inp.matrix[index][v_target.end[1]]
             ELSE 0
        ELSE inp.matrix[index][inp.jobs[At(t_route, o.t_rank + 2)].index]

\* compute_gain() raising a flag also when the two orientations tie.
ComputeGainNonStrict(inp, ss, rts, o) ==
    LET m == inp.matrix
        s_route == rts[o.s_vehicle]
        t_route == rts[o.t_vehicle]
        s_index       == inp.jobs[At(s_route, o.s_rank)].index
        s_after_index == inp.jobs[At(s_route, o.s_rank + 1)].index
        t_index       == inp.jobs[At(t_route, o.t_rank)].index
        t_after_index == inp.jobs[At(t_route, o.t_rank + 1)].index
        s_around == ss.edge_costs_around_edge[o.s_vehicle][o.s_rank + 1]
        t_around == ss.edge_costs_around_edge[o.t_vehicle][o.t_rank + 1]
        normal_s_gain ==
            s_around - SPreviousCost(inp, rts, o, t_index)
                     - SNextCost(inp, rts, o, t_after_index)
        reversed_s_gain ==
            s_around + m[t_index][t_after_index] - m[t_after_index][t_index]
                     - SPreviousCost(inp, rts, o, t_after_index)
                     - SNextCost(inp, rts, o, t_index)
        normal_t_gain ==
            t_around - TPreviousCost(inp, rts, o, s_index)
                     - TNextCost(inp, rts, o, s_after_index)
        reversed_t_gain ==
            t_around + m[s_index][s_after_index] - m[s_after_index][s_index]
                     - TPreviousCost(inp, rts, o, s_after_index)
                     - TNextCost(inp, rts, o, s_index)
    IN  [o EXCEPT
            !.normal_s_gain   = normal_s_gain,
            !.reversed_s_gain = reversed_s_gain,
            !.reverse_t_edge  = IF reversed_s_gain >= normal_s_gain THEN TRUE ELSE @,
            !.normal_t_gain   = normal_t_gain,
            !.reversed_t_gain = reversed_t_gain,
            !.reverse_s_edge  = IF reversed_t_gain >= normal_t_gain THEN TRUE ELSE @,
            !.stored_gain     = Max(normal_s_gain, reversed_s_gain)
                                + Max(normal_t_gain, reversed_t_gain),
            !.gain_computed   = TRUE]

\* CrossExchange::compute_gain(): the operator with its gains and reversal
\* flags set.  A flag is only ever raised, never cleared.
ComputeGain(inp, ss, rts, o) ==
    LET m == inp.matrix
        s_route == rts[o.s_vehicle]
        t_route == rts[o.t_vehicle]
        s_index       == inp.jobs[At(s_route, o.s_rank)].index
        s_after_index == inp.jobs[At(s_route, o.s_rank + 1)].index
        t_index       == inp.jobs[At(t_route, o.t_rank)].index
        t_after_index == inp.jobs[At(t_route, o.t_rank + 1)].index
        s_around == ss.edge_costs_around_edge[o.s_vehicle][o.s_rank + 1]
        t_around == ss.edge_costs_around_edge[o.t_vehicle][o.t_rank + 1]
        normal_s_gain ==
            s_around - SPreviousCost(inp, rts, o, t_index)
                     - SNextCost(inp, rts, o, t_after_index)
        s_reverse_edge_cost == m[t_index][t_after_index] - m[t_after_index][t_index]
        reversed_s_gain ==
            s_around + s_reverse_edge_cost
                     - SPreviousCost(inp, rts, o, t_after_index)
                     - SNextCost(inp, rts, o, t_index)
        normal_t_gain ==
            t_around - TPreviousCost(inp, rts, o, s_index)
                     - TNextCost(inp, rts, o, s_after_index)
        t_reverse_edge_cost == m[s_index][s_after_index] - m[s_after_index][s_index]
        reversed_t_gain ==
            t_around + t_reverse_edge_cost
                     - TPreviousCost(inp, rts, o, s_after_index)
                     - TNextCost(inp, rts, o, s_index)
    IN  [o EXCEPT
            !.normal_s_gain   = normal_s_gain,
            !.reversed_s_gain = reversed_s_gain,
            !.reverse_t_edge  = IF reversed_s_gain > normal_s_gain THEN TRUE ELSE @,
            !.normal_t_gain   = normal_t_gain,
            !.reversed_t_gain = reversed_t_gain,
            !.reverse_s_edge  = IF reversed_t_gain > normal_t_gain THEN TRUE ELSE @,
            !.stored_gain     = Max(normal_s_gain, reversed_s_gain)
                                + Max(normal_t_gain, reversed_t_gain),
            !.gain_computed   = TRUE]

\* is_valid() with its last statement assigning `valid` instead of
\* and-ing into it: only the target's capacity is checked.
IsValidLastCheckOnly(inp, ss, rts, o) ==
    LET s_route == rts[o.s_vehicle]
        t_route == rts[o.t_vehicle]
        t_back == ss.fwd_amounts[o.t_vehicle][Len(ss.fwd_amounts[o.t_vehicle])]
    IN  AmountLeq(
          AmountAdd(AmountAdd(AmountSub(AmountSub(t_back,
              inp.jobs[At(t_route, o.t_rank)].amount),
              inp.jobs[At(t_route, o.t_rank + 1)].amount),
              inp.jobs[At(s_route, o.s_rank)].amount),
              inp.jobs[At(s_route, o.s_rank + 1)].amount),
          inp.vehicles[o.t_vehicle].capacity)

\* CrossExchange::is_valid(): skills of the four moved jobs against the
\* receiving vehicle, then the capacity of both vehicles.
IsValid(inp, ss, rts, o) ==
    LET s_route == rts[o.s_vehicle]
        t_route == rts[o.t_vehicle]
        s_current_job_rank == At(s_route, o.s_rank)
        t_current_job_rank == At(t_route, o.t_rank)
        s_after_job_rank   == At(s_route, o.s_rank + 1)
        t_after_job_rank   == At(t_route, o.t_rank + 1)
        s_back == ss.fwd_amounts[o.s_vehicle][Len(ss.fwd_amounts[o.s_vehicle])]
        t_back == ss.fwd_amounts[o.t_vehicle][Len(ss.fwd_amounts[o.t_vehicle])]
    IN  /\ VehicleOkWithJob(inp, o.t_vehicle, s_current_job_rank)
        /\ VehicleOkWithJob(inp, o.t_vehicle, s_after_job_rank)
        /\ VehicleOkWithJob(inp, o.s_vehicle, t_current_job_rank)
        /\ VehicleOkWithJob(inp, o.s_vehicle, t_after_job_rank)
        /\ AmountLeq(
             AmountAdd(AmountAdd(AmountSub(AmountSub(s_back,
                 inp.jobs[s_current_job_rank].amount),
                 inp.jobs[s_after_job_rank].amount),
                 inp.jobs[t_current_job_rank].amount),
                 inp.jobs[t_after_job_rank].amount),
             inp.vehicles[o.s_vehicle].capacity)
        /\ AmountLeq(
             AmountAdd(AmountAdd(AmountSub(AmountSub(t_back,
                 inp.jobs[t_current_job_rank].amount),
                 inp.jobs[t_after_job_rank].amount),
                 inp.jobs[s_current_job_rank].amount),
                 inp.jobs[s_after_job_rank].amount),
             inp.vehicles[o.t_vehicle].capacity)

\* apply() with assignments in place of the swaps: the target route keeps
\* its jobs and the source route receives copies of them.
ApplyOverwrite(rts, o) ==
    LET s == rts[o.s_vehicle]
        t == rts[o.t_vehicle]
        s1 == [s EXCEPT ![o.s_rank + 1] = At(t, o.t_rank),
                        ![o.s_rank + 2] = At(t, o.t_rank + 1)]
        t2 == IF o.reverse_s_edge THEN SwapAt(t, o.t_rank, o.t_rank + 1) ELSE t
        s2 == IF o.reverse_t_edge THEN SwapAt(s1, o.s_rank, o.s_rank + 1) ELSE s1
    IN  [rts EXCEPT ![o.s_vehicle] = s2, ![o.t_vehicle] = t2]

\* apply() with each flag reversing the edge of the route it is named
\* after.
ApplyFlagsCrossed(rts, o) ==
    LET s == rts[o.s_vehicle]
        t == rts[o.t_vehicle]
        s1 == [s EXCEPT ![o.s_rank + 1] = At(t, o.t_rank),
                        ![o.s_rank + 2] = At(t, o.t_rank + 1)]
        t1 == [t EXCEPT ![o.t_rank + 1] = At(s, o.s_rank),
                        ![o.t_rank + 2] = At(s, o.s_rank + 1)]
        s2 == IF o.reverse_s_edge THEN SwapAt(s1, o.s_rank, o.s_rank + 1) ELSE s1
        t2 == IF o.reverse_t_edge THEN SwapAt(t1, o.t_rank, o.t_rank + 1) ELSE t1
    IN  [rts EXCEPT ![o.s_vehicle] = s2, ![o.t_vehicle] = t2]

\* apply() exchanging only the first job of each edge.
ApplySingleSwap(rts, o) ==
    LET s == rts[o.s_vehicle]
        t == rts[o.t_vehicle]
        s1 == [s EXCEPT ![o.s_rank + 1] = At(t, o.t_rank)]
        t1 == [t EXCEPT ![o.t_rank + 1] = At(s, o.s_rank)]
        t2 == IF o.reverse_s_edge THEN SwapAt(t1, o.t_rank, o.t_rank + 1) ELSE t1
        s2 == IF o.reverse_t_edge THEN SwapAt(s1, o.s_rank, o.s_rank + 1) ELSE s1
    IN  [rts EXCEPT ![o.s_vehicle] = s2, ![o.t_vehicle] = t2]

\* CrossExchange::apply(): the routes after the two swaps and the
\* reversals the flags ask for.
Apply(rts, o) ==
    LET s == rts[o.s_vehicle]
        t == rts[o.t_vehicle]
        \* std::swap(s_route[s_rank], t_route[t_rank]);
        \* std::swap(s_route[s_rank + 1], t_route[t_rank + 1]);
        s1 == [s EXCEPT ![o.s_rank + 1] = At(t, o.t_rank),
                        ![o.s_rank + 2] = At(t, o.t_rank + 1)]
        t1 == [t EXCEPT ![o.t_rank + 1] = At(s, o.s_rank),
                        ![o.t_rank + 2] = At(s, o.s_rank + 1)]
        t2 == IF o.reverse_s_edge THEN SwapAt(t1, o.t_rank, o.t_rank + 1) ELSE t1
        s2 == IF o.reverse_t_edge THEN SwapAt(s1, o.s_rank, o.s_rank + 1) ELSE s1
    IN  [rts EXCEPT ![o.s_vehicle] = s2, ![o.t_vehicle] = t2]

\* update_candidates() naming the source vehicle only.
UpdateCandidatesSourceOnly(o) == {o.s_vehicle}

\* CrossExchange::update_candidates() (addition_candidates() is the same).
UpdateCandidates(o) == {o.s_vehicle, o.t_vehicle}

\* ----------------------------------------------------------- instances ----

Matrices == [Locations -> [Locations -> CostValues]]

\* An asymmetric matrix: the trips 0 -> 1, 1 -> 2 and 2 -> 0 cost 1, every
\* other trip is free.
RingMatrix == [a \in Locations |-> [b \in Locations |->
                 IF b = (a + 1) % 3 THEN 1 ELSE 0]]

\* Job j sits at matrix index j % 3, so several jobs share an index.
JobIndex(j) == j % 3

JobAmount(j) == CASE j = 0 -> <<1, 0>>
                  [] j = 1 -> <<0, 1>>
                  [] j = 2 -> <<1, 1>>
                  [] j = 3 -> <<2, 1>>
                  [] j = 4 -> <<0, 1>>
                  [] OTHER -> <<1, 0>>

VehicleStartIndex(v) == (v + 1) % 3

VehicleEndIndex(v) == (v + 2) % 3

RECURSIVE InitialLoad(_, _)
InitialLoad(route, k) ==
    IF k = 0 THEN ZeroAmount
    ELSE AmountAdd(InitialLoad(route, k - 1), JobAmount(route[k]))

InitialVehicle(j) == CHOOSE v \in Vehicles :
                        \E k \in DOMAIN InitialRoutes[v] : InitialRoutes[v][k] = j

Slacks == {<<a, b>> : a \in 0..MaxSlack, b \in 0..MaxSlack}

AmpleSlack == <<MaxSlack + 2, MaxSlack + 2>>

\* No job, or one job, with a skill requirement.
SpecialJobs == {{}} \cup {{j} : j \in Jobs}

\* The instance with matrix m, a start for the vehicles in hs, an end for
\* those in he, capacity slack[v] above the initial load, and the jobs of
\* `special` requiring a skill that only their initial vehicle holds.
Instance(m, hs, he, slack, special) ==
    [matrix |-> m,
     vehicles |-> [v \in Vehicles |->
        [start    |-> IF v \in hs THEN <<VehicleStartIndex(v)>> ELSE <<>>,
         end      |-> IF v \in he THEN <<VehicleEndIndex(v)>> ELSE <<>>,
         capacity |-> AmountAdd(InitialLoad(InitialRoutes[v], Len(InitialRoutes[v])),
                                slack[v]),
         skills   |-> IF \E j \in special : InitialVehicle(j) = v
                      THEN {1} ELSE {}]],
     jobs |-> [j \in Jobs |->
        [index  |-> JobIndex(j),
         amount |-> JobAmount(j),
         skills |-> IF j \in special THEN {1} ELSE {}]]]

\* Every matrix and every presence of start/end, with ample capacity and
\* no skill restriction.
CostInstances ==
    {Instance(m, hs \cup {2}, he \cup {2}, [v \in Vehicles |-> AmpleSlack], {}) :
        m \in Matrices, hs \in SUBSET ActiveVehicles, he \in SUBSET ActiveVehicles}

\* Every capacity slack and every special job, on the ring matrix.
LoadInstances ==
    {Instance(RingMatrix, Vehicles, Vehicles,
              [v \in Vehicles |-> IF v = 0 THEN s0 ELSE IF v = 1 THEN s1 ELSE <<0, 0>>],
              special) :
        s0 \in Slacks, s1 \in Slacks, special \in SpecialJobs}

Instances == CostInstances \cup LoadInstances

\* ------------------------------------------------ operator-level actions --

NoOperator == <<>>

ParserOff == [pc |-> "off"]

NoDocument == <<>>

NoInput == <<>>

\* Before the problem instance is handed to the local search: no routes.
Init ==
    /\ input = NoInput
    /\ routes = [v \in Vehicles |-> <<>>]
    /\ sol_state = [fwd_amounts |-> [v \in Vehicles |-> <<>>],
                    edge_costs_around_edge |-> [v \in Vehicles |-> <<>>]]
    /\ op = NoOperator
    /\ pc = "load"
    /\ valid = FALSE
    /\ moves = 0
    /\ pre_routes = routes
    /\ pre_state = sol_state
    /\ json = NoDocument
    /\ parser = ParserOff

\* The input adapter and the construction heuristic hand over an instance
\* and a feasible assignment; the Solution State is built from scratch.
Load ==
    /\ pc = "load"
    /\ input' \in Instances
    /\ routes' = InitialRoutes
    /\ sol_state' = BuildState(input', routes')
    /\ pc' = "idle"
    /\ pre_routes' = routes'
    /\ pre_state' = sol_state'
    /\ UNCHANGED <<op, valid, moves, json, parser>>

Ranks == {0, 1, 2}

\* The driver constructs a candidate on an up-to-date Solution State.
Construct(s_vehicle, s_rank, t_vehicle, t_rank) ==
    /\ pc = "idle"
    /\ moves < MaxMoves
    /\ Precondition(routes, s_vehicle, s_rank, t_vehicle, t_rank)
    /\ op' = CrossExchange(s_vehicle, s_rank, t_vehicle, t_rank)
    /\ pc' = "constructed"
    /\ pre_routes' = routes
    /\ pre_state' = sol_state
    /\ valid' = FALSE
    /\ UNCHANGED <<input, routes, sol_state, moves, json, parser>>

\* compute_gain() trying the exchange on the routes and not undoing it.
DoComputeGainInPlace ==
    /\ pc = "constructed"
    /\ op' = ComputeGain(input, sol_state, routes, op)
    /\ routes' = Apply(routes, op)
    /\ pc' = "gain"
    /\ UNCHANGED <<input, sol_state, valid, moves, pre_routes, pre_state, json, parser>>

DoComputeGain ==
    /\ pc = "constructed"
    /\ op' = ComputeGain(input, sol_state, routes, op)
    /\ pc' = "gain"
    /\ UNCHANGED <<input, routes, sol_state, valid, moves, pre_routes, pre_state,
                   json, parser>>

DoIsValid ==
    /\ pc = "gain"
    /\ valid' = IsValid(input, sol_state, routes, op)
    /\ pc' = "checked"
    /\ UNCHANGED <<input, routes, sol_state, op, moves, pre_routes, pre_state,
                   json, parser>>

\* apply(), whatever the gain and the validity were; a second apply() of
\* the same operator is possible before the state is rebuilt.
DoApply ==
    /\ pc \in {"checked", "applied"}
    /\ moves < MaxMoves
    /\ routes' = Apply(routes, op)
    /\ moves' = moves + 1
    /\ pc' = IF pc = "checked" THEN "applied" ELSE "applied_twice"
    /\ UNCHANGED <<input, sol_state, op, valid, pre_routes, pre_state, json, parser>>

\* The driver rebuilds the Solution State of the update candidates and
\* drops the operator.
Rebuild ==
    /\ pc \in {"applied", "applied_twice"}
    /\ sol_state' = UpdateState(input, routes, sol_state, UpdateCandidates(op))
    /\ op' = NoOperator
    /\ pc' = "idle"
    /\ valid' = FALSE
    /\ pre_routes' = routes
    /\ pre_state' = sol_state'
    /\ UNCHANGED <<input, routes, moves, json, parser>>

\* A candidate that is evaluated and not applied is dropped.
Reject ==
    /\ pc = "checked"
    /\ op' = NoOperator
    /\ pc' = "idle"
    /\ valid' = FALSE
    /\ UNCHANGED <<input, routes, sol_state, moves, pre_routes, pre_state,
                   json, parser>>

Next ==
    \/ Load
    \/ \E s_vehicle \in Vehicles, t_vehicle \in Vehicles,
          s_rank \in Ranks, t_rank \in Ranks :
          Construct(s_vehicle, s_rank, t_vehicle, t_rank)
    \/ DoComputeGain
    \/ DoIsValid
    \/ DoApply
    \/ Rebuild
    \/ Reject

Spec == Init /\ [][Next]_vars

\* --------------------------------------------------------- descent loop ----

\* Every operator the constructor accepts on the current routes.
Candidates(rts) ==
    {c \in [s_vehicle : Vehicles, s_rank : Ranks, t_vehicle : Vehicles, t_rank : Ranks] :
        Precondition(rts, c.s_vehicle, c.s_rank, c.t_vehicle, c.t_rank)}

Evaluate(inp, ss, rts, c) ==
    ComputeGain(inp, ss, rts, CrossExchange(c.s_vehicle, c.s_rank, c.t_vehicle, c.t_rank))

\* The evaluated operators the driver may apply.  A move is attempted iff
\* stored_gain > 0; only then is is_valid() asked.
Contenders(inp, ss, rts) ==
    {o \in {Evaluate(inp, ss, rts, c) : c \in Candidates(rts)} :
        o.stored_gain > 0 /\ IsValid(inp, ss, rts, o)}

\* Ties on the gain are broken by vehicle indices, then by ranks.
Precedes(c, d) ==
    \/ c.s_vehicle < d.s_vehicle
    \/ c.s_vehicle = d.s_vehicle /\ c.t_vehicle < d.t_vehicle
    \/ c.s_vehicle = d.s_vehicle /\ c.t_vehicle = d.t_vehicle /\ c.s_rank < d.s_rank
    \/ c.s_vehicle = d.s_vehicle /\ c.t_vehicle = d.t_vehicle /\ c.s_rank = d.s_rank
       /\ c.t_rank <= d.t_rank

\* o is the contender the driver picks among cs: maximum gain, ties broken
\* by Precedes.
IsBest(cs, o) ==
    \A d \in cs :
        \/ o.stored_gain > d.stored_gain
        \/ o.stored_gain = d.stored_gain /\ Precedes(o, d)

\* One iteration of the driver: pick the best contender, apply it, rebuild
\* the Solution State of its update candidates.
DescentStep ==
    /\ pc = "idle"
    /\ \E cs \in {Contenders(input, sol_state, routes)} :
       \E o \in cs :
       \E applied \in {Apply(routes, o)} :
          /\ IsBest(cs, o)
          /\ routes' = applied
          /\ sol_state' = UpdateState(input, applied, sol_state, UpdateCandidates(o))
          /\ op' = o
    /\ valid' = TRUE
    /\ pre_routes' = routes
    /\ pre_state' = sol_state
    /\ UNCHANGED <<input, pc, moves, json, parser>>

\* No positive-gain valid candidate is left: the descent stops.
DescentDone ==
    /\ pc = "idle"
    /\ Contenders(input, sol_state, routes) = {}
    /\ pc' = "done"
    /\ UNCHANGED <<input, routes, sol_state, op, valid, moves, pre_routes, pre_state,
                   json, parser>>

DescentLoop == DescentStep \/ DescentDone

DescentNext == Load \/ DescentLoop

\* The driver is a sequential loop: once started it keeps iterating while
\* it can.
Descent == Init /\ [][DescentNext]_vars /\ WF_vars(DescentLoop)

\* --------------------------------------------------- claims C1 .. C9 ------

SourceVehicle == input.vehicles[op.s_vehicle]

TargetVehicle == input.vehicles[op.t_vehicle]

\* The operator's gains are known and it has not been applied yet.
GainKnown == pc \in {"gain", "checked"}

\* C1: after compute_gain() on an up-to-date Solution State and one
\* apply() with the flags compute_gain() set, stored_gain is the total cost
\* of the routes before the apply() minus their total cost after it.
C1_GainIsCostDifference ==
    pc = "applied" =>
        op.stored_gain = TotalCost(input, pre_routes) - TotalCost(input, routes)

C1_Witness ==
    /\ pc = "applied"
    /\ op.reverse_s_edge /\ ~op.reverse_t_edge
    /\ op.stored_gain > 0
    /\ op.s_rank = 1
    /\ ~HasStart(TargetVehicle) /\ HasEnd(TargetVehicle)
    /\ input.matrix[0][1] # input.matrix[1][0]

\* The jobs of the routes, with multiplicity.
RECURSIVE JobCount(_, _, _)
JobCount(rts, vs, j) ==
    IF vs = {}
    THEN 0
    ELSE LET v == CHOOSE x \in vs : TRUE
         IN  Cardinality({k \in DOMAIN rts[v] : rts[v][k] = j})
             + JobCount(rts, vs \ {v}, j)

\* C2: once the routes hold every job exactly once they keep doing so,
\* whatever operators are applied and whatever their reversal flags.
C2_JobPartition ==
    pc # "load" => \A j \in Jobs : JobCount(routes, Vehicles, j) = 1

C2_Witness ==
    /\ pc = "applied"
    /\ moves = 2
    /\ op.reverse_s_edge /\ op.reverse_t_edge
    /\ pre_routes # InitialRoutes

CapacityOk(rts) ==
    \A v \in Vehicles : AmountLeq(RouteLoad(input, rts[v]), input.vehicles[v].capacity)

\* C3: an operator that is_valid() accepted on capacity-feasible routes
\* leaves, once applied, the load of the source and of the target route
\* (and so of every route) within the vehicle's capacity.
C3_CapacityKept ==
    (pc = "applied" /\ valid /\ CapacityOk(pre_routes)) =>
        /\ AmountLeq(RouteLoad(input, routes[op.s_vehicle]), SourceVehicle.capacity)
        /\ AmountLeq(RouteLoad(input, routes[op.t_vehicle]), TargetVehicle.capacity)
        /\ CapacityOk(routes)

C3_Witness ==
    /\ pc = "applied" /\ valid /\ CapacityOk(pre_routes)
    /\ routes # pre_routes
    /\ RouteLoad(input, routes[op.s_vehicle]) = SourceVehicle.capacity
    /\ RouteLoad(input, routes[op.s_vehicle]) # RouteLoad(input, pre_routes[op.s_vehicle])

SkillsOk(rts) ==
    \A v \in Vehicles : \A k \in DOMAIN rts[v] :
        input.jobs[rts[v][k]].skills \subseteq input.vehicles[v].skills

\* C4: an operator that is_valid() accepted on skill-compatible routes
\* leaves every job on a vehicle that holds its skills; a job whose skill
\* only one vehicle holds stays on that vehicle.
C4_SkillsKept ==
    (pc = "applied" /\ valid /\ SkillsOk(pre_routes)) =>
        /\ \A k \in DOMAIN routes[op.s_vehicle] :
              input.jobs[routes[op.s_vehicle][k]].skills \subseteq SourceVehicle.skills
        /\ \A k \in DOMAIN routes[op.t_vehicle] :
              input.jobs[routes[op.t_vehicle][k]].skills \subseteq TargetVehicle.skills
        /\ \A j \in Jobs : input.jobs[j].skills # {} =>
              \E k \in DOMAIN routes[InitialVehicle(j)] : routes[InitialVehicle(j)][k] = j

C4_Witness ==
    /\ pc = "applied" /\ valid /\ SkillsOk(pre_routes)
    /\ routes # pre_routes
    /\ input.jobs[0].skills = {1}
    /\ op.s_vehicle = 0 /\ op.s_rank = 1

\* C5: every move the descent applies (stored_gain > 0, is_valid() true,
\* Solution State rebuilt after each apply) strictly lowers the total cost.
C5_MonotoneDescent ==
    [][(pc = "idle" /\ routes' # routes) =>
          TotalCost(input, routes') < TotalCost(input, routes)]_vars

C5_Witness ==
    /\ pc = "idle" /\ valid
    /\ pre_routes # InitialRoutes
    /\ routes # pre_routes
    /\ op.stored_gain = 1
    /\ op.reverse_t_edge

\* C6: the descent reaches a state with no positive-gain valid candidate.
C6_Termination == (pc = "idle") ~> (pc = "done")

C6_Witness ==
    /\ pc = "done"
    /\ valid
    /\ pre_routes # InitialRoutes
    /\ Contenders(input, sol_state, routes) = {}

\* Both exchanged edges of rts reversed in place.
BothEdgesReversed(rts, o) ==
    [rts EXCEPT ![o.s_vehicle] = SwapAt(rts[o.s_vehicle], o.s_rank, o.s_rank + 1),
                ![o.t_vehicle] = SwapAt(rts[o.t_vehicle], o.t_rank, o.t_rank + 1)]

\* The operator with its two reversal flags exchanged.
FlagsExchanged(o) ==
    [o EXCEPT !.reverse_s_edge = o.reverse_t_edge, !.reverse_t_edge = o.reverse_s_edge]

\* C7 as stated: a second apply() of the same operator, same ranks and
\* flags, restores the routes.
C7_ApplyTwiceRestores ==
    pc = "applied_twice" => routes = pre_routes

\* C7 amended: the second apply() restores the routes iff the two flags
\* are equal; with exactly one flag set it leaves both exchanged edges
\* reversed.  The move that undoes an apply() is the one with the two
\* flags exchanged.
C7_ApplyTwice ==
    /\ pc = "applied_twice" =>
          /\ (op.reverse_s_edge = op.reverse_t_edge) =>
                /\ routes = pre_routes
                /\ TotalCost(input, routes) = TotalCost(input, pre_routes)
          /\ (op.reverse_s_edge # op.reverse_t_edge) =>
                /\ routes = BothEdgesReversed(pre_routes, op)
                /\ routes # pre_routes
    /\ pc = "applied" => Apply(routes, FlagsExchanged(op)) = pre_routes

C7_Witness ==
    /\ pc = "applied_twice"
    /\ op.reverse_s_edge /\ op.reverse_t_edge
    /\ op.s_vehicle = 1

Symmetric(m) == \A a \in Locations, b \in Locations : m[a][b] = m[b][a]

\* C8 as stated: on a symmetric matrix the normal and the reversed gain
\* are equal on both sides and no reversal flag is set.
C8_SymmetricNoReversal ==
    (GainKnown /\ Symmetric(input.matrix)) =>
        /\ op.normal_s_gain = op.reversed_s_gain
        /\ op.normal_t_gain = op.reversed_t_gain
        /\ ~op.reverse_s_edge /\ ~op.reverse_t_edge

\* Cost of entering the source (target) route at the exchanged edge with a
\* job of matrix index x, and of leaving it after one.
SEnter(x) == CostFrom(input, PrevIndex(input, op.s_vehicle, routes[op.s_vehicle], op.s_rank), x)

SLeave(x) == CostTo(input, x, NextIndex(input, op.s_vehicle, routes[op.s_vehicle], op.s_rank + 1))

TEnter(x) == CostFrom(input, PrevIndex(input, op.t_vehicle, routes[op.t_vehicle], op.t_rank), x)

TLeave(x) == CostTo(input, x, NextIndex(input, op.t_vehicle, routes[op.t_vehicle], op.t_rank + 1))

SIndex == input.jobs[At(routes[op.s_vehicle], op.s_rank)].index

SAfterIndex == input.jobs[At(routes[op.s_vehicle], op.s_rank + 1)].index

TIndex == input.jobs[At(routes[op.t_vehicle], op.t_rank)].index

TAfterIndex == input.jobs[At(routes[op.t_vehicle], op.t_rank + 1)].index

\* The exchanged edge has no position before it and none after it.
SIsolated == PrevIndex(input, op.s_vehicle, routes[op.s_vehicle], op.s_rank) = <<>>
             /\ NextIndex(input, op.s_vehicle, routes[op.s_vehicle], op.s_rank + 1) = <<>>

TIsolated == PrevIndex(input, op.t_vehicle, routes[op.t_vehicle], op.t_rank) = <<>>
             /\ NextIndex(input, op.t_vehicle, routes[op.t_vehicle], op.t_rank + 1) = <<>>

\* C8 amended: on a symmetric matrix the two orientations of an edge cost
\* the same, so on each side the reversed gain exceeds the normal gain by
\* exactly the surround cost the reversal saves; the edge is reversed iff
\* that saving is positive, and the gains are equal (normal orientation
\* kept) when the receiving side has no position before and none after the
\* edge.
C8_SymmetricReversal ==
    (GainKnown /\ Symmetric(input.matrix)) =>
        /\ op.reversed_s_gain - op.normal_s_gain =
              (SEnter(TIndex) + SLeave(TAfterIndex)) - (SEnter(TAfterIndex) + SLeave(TIndex))
        /\ op.reversed_t_gain - op.normal_t_gain =
              (TEnter(SIndex) + TLeave(SAfterIndex)) - (TEnter(SAfterIndex) + TLeave(SIndex))
        /\ op.reverse_t_edge <=>
              (SEnter(TAfterIndex) + SLeave(TIndex) < SEnter(TIndex) + SLeave(TAfterIndex))
        /\ op.reverse_s_edge <=>
              (TEnter(SAfterIndex) + TLeave(SIndex) < TEnter(SIndex) + TLeave(SAfterIndex))
        /\ SIsolated => (op.normal_s_gain = op.reversed_s_gain /\ ~op.reverse_t_edge)
        /\ TIsolated => (op.normal_t_gain = op.reversed_t_gain /\ ~op.reverse_s_edge)

C8_Witness ==
    /\ GainKnown /\ Symmetric(input.matrix)
    /\ op.reverse_t_edge /\ ~op.reverse_s_edge
    /\ TIsolated /\ ~SIsolated
    /\ op.reversed_s_gain > op.normal_s_gain

\* C9: at rank 0 the incoming edge is entered from the vehicle's start
\* (cost 0 without one), at rank size-2 it is left towards the vehicle's
\* end (cost 0 without one), otherwise the jobs at rank-1 and rank+2 are
\* the neighbours; on both sides and for both orientations.
C9_Boundaries ==
    GainKnown =>
        LET s_route == routes[op.s_vehicle]
            t_route == routes[op.t_vehicle]
            m == input.matrix
            s_around == sol_state.edge_costs_around_edge[op.s_vehicle][op.s_rank + 1]
            t_around == sol_state.edge_costs_around_edge[op.t_vehicle][op.t_rank + 1]
            s_in(x)  == IF op.s_rank = 0
                        THEN IF SourceVehicle.start = <<>> THEN 0
                             ELSE m[SourceVehicle.start[1]][x]
                        ELSE m[input.jobs[s_route[op.s_rank]].index][x]
            s_out(x) == IF op.s_rank = Len(s_route) - 2
                        THEN IF SourceVehicle.end = <<>> THEN 0
                             ELSE m[x][SourceVehicle.end[1]]
                        ELSE m[x][input.jobs[s_route[op.s_rank + 3]].index]
            t_in(x)  == IF op.t_rank = 0
                        THEN IF TargetVehicle.start = <<>> THEN 0
                             ELSE m[TargetVehicle.start[1]][x]
                        ELSE m[input.jobs[t_route[op.t_rank]].index][x]
            t_out(x) == IF op.t_rank = Len(t_route) - 2
                        THEN IF TargetVehicle.end = <<>> THEN 0
                             ELSE m[x][TargetVehicle.end[1]]
                        ELSE m[x][input.jobs[t_route[op.t_rank + 3]].index]
        IN  /\ op.normal_s_gain = s_around - s_in(TIndex) - s_out(TAfterIndex)
            /\ op.reversed_s_gain = s_around + m[TIndex][TAfterIndex] - m[TAfterIndex][TIndex]
                                    - s_in(TAfterIndex) - s_out(TIndex)
            /\ op.normal_t_gain = t_around - t_in(SIndex) - t_out(SAfterIndex)
            /\ op.reversed_t_gain = t_around + m[SIndex][SAfterIndex] - m[SAfterIndex][SIndex]
                                    - t_in(SAfterIndex) - t_out(SIndex)

C9_Witness ==
    /\ GainKnown
    /\ op.s_rank = 0 /\ ~HasStart(SourceVehicle)
    /\ Len(routes[op.s_vehicle]) = 3
    /\ op.t_rank = 0 /\ HasStart(TargetVehicle) /\ ~HasEnd(TargetVehicle)
    /\ op.normal_s_gain # op.reversed_s_gain
    /\ op.normal_t_gain # op.reversed_t_gain

\* ------------------------------------------------------------ io::parse ----

\* Largest index value a document names.
MaxIndex == 2

\* Largest number of matrix lines in a document.
MaxMatrixSize == 2

\* JSON values as rapidjson types them: "uint" satisfies IsUint() and
\* IsUint64(), "uint64" only IsUint64(), "other" stands for null, a
\* negative or fractional number, or a boolean.
JUint(n) == [type |-> "uint", value |-> n]

JUint64(low) == [type |-> "uint64", value |-> low]

JString(str) == [type |-> "string", value |-> str]

JOther == [type |-> "other", value |-> 0]

JArray(elems) == [type |-> "array", value |-> elems]

\* The object whose members are the keys for which `fields` holds a value
\* (`fields` maps each key to a sequence of length 0 or 1).
JObject(fields) ==
    [type |-> "object",
     value |-> [k \in {x \in DOMAIN fields : Len(fields[x]) > 0} |-> fields[k][1]]]

IsUint(x) == x.type = "uint"

IsUint64(x) == x.type \in {"uint", "uint64"}

IsString(x) == x.type = "string"

IsArray(x) == x.type = "array"

IsObject(x) == x.type = "object"

HasMember(x, key) == key \in DOMAIN x.value

\* Conversion of a GetUint() result to Index.  Index is declared in
\* structures/typedefs.h; it is taken to hold every value GetUint() returns.
ToIndex(u) == u

DEFAULT_PROFILE == "car"

ProfileStrings == {"car", "bike"}

\* What reading a non-string value as a string can yield when the read
\* does not stop the program.
GarbageStrings == ProfileStrings \cup {"?"}

NoError == [kind |-> "NONE", msg |-> ""]

EmptyInput == [matrix |-> <<>>, vehicles |-> <<>>, jobs |-> <<>>]

\* The exception parse() leaves with.
Throw(p, kind, msg) == [p EXCEPT !.pc = "error", !.error = [kind |-> kind, msg |-> msg]]

\* A failed rapidjson assertion, or a crash on the invalid read.
Abort(p) == [p EXCEPT !.pc = "aborted"]

\* ---- the documents ----

OptionalIndex == {<<>>, <<JOther>>} \cup {<<JUint(n)>> : n \in 0..MaxIndex}

JVehicle(id, start_index, end_index, profile, capacity) ==
    JObject([id |-> id, start_index |-> start_index, end_index |-> end_index,
             profile |-> profile, capacity |-> capacity])

JsonVehicles ==
    {JVehicle(<<JUint(1)>>, se[1], se[2], <<>>, <<>>) :
        se \in {x \in OptionalIndex \X OptionalIndex :
                   x[1] = <<>> \/ x[2] = <<>> \/ x[1] = x[2]}}
    \cup {JVehicle(<<JUint(1)>>, <<>>, <<>>, <<pr>>, <<>>) :
             pr \in {JString("car"), JString("bike"), JOther}}
    \cup {JVehicle(<<JUint(1)>>, <<>>, <<>>, <<>>, <<JOther>>),
          JVehicle(<<JUint64(1)>>, <<>>, <<>>, <<>>, <<>>),
          JVehicle(<<>>, <<>>, <<>>, <<>>, <<>>),
          JOther}

JJob(id, location_index, amount) ==
    JObject([id |-> id, location_index |-> location_index, amount |-> amount])

JsonJobs ==
    {JJob(<<JUint(1)>>, li, <<>>) : li \in OptionalIndex}
    \cup {JJob(<<JUint(1)>>, <<JUint(0)>>, <<JOther>>),
          JJob(<<>>, <<JUint(0)>>, <<>>),
          JOther}

\* Largest time a document names in a time window.
MaxTime == 2

JWindow(a, b) == JArray(<<JUint(a), JUint(b)>>)

\* Windows with start <= end.
JsonWindows ==
    {JWindow(w[1], w[2]) : w \in {x \in (0..MaxTime) \X (0..MaxTime) : x[1] <= x[2]}}

\* Values that are no time window, and one with a surplus element.
OddWindows ==
    {JOther, JArray(<<JUint(0)>>), JArray(<<JUint(0), JOther>>),
     JArray(<<JUint(0), JUint(1), JUint(0)>>)}

\* Values of a "time_windows" member: a non-array, the empty array, up to
\* three windows in any order, and arrays holding an odd window.
JsonTimeWindows ==
    {JOther, JArray(<<>>)}
    \cup {JArray(<<a>>) : a \in JsonWindows \cup OddWindows}
    \cup {JArray(<<a, b>>) : a \in JsonWindows, b \in JsonWindows \cup OddWindows}
    \cup {JArray(<<a, b, c>>) : a \in JsonWindows, b \in JsonWindows, c \in JsonWindows}

JTimedJob(time_windows) ==
    JObject([id |-> <<JUint(1)>>, location_index |-> <<JUint(0)>>,
             time_windows |-> time_windows])

\* One or two jobs, the last one with a "time_windows" member.
TimedJobLists ==
    {JArray(<<JTimedJob(<<tws>>)>>) : tws \in JsonTimeWindows}
    \cup {JArray(<<JJob(<<JUint(1)>>, <<JUint(0)>>, <<>>), JTimedJob(<<tws>>)>>) :
             tws \in JsonTimeWindows}

\* Arrays of one or two values of S, the empty array and a non-array.
JsonLists(S) ==
    {JOther, JArray(<<>>)} \cup {JArray(<<a>>) : a \in S}
    \cup {JArray(<<a, b>>) : a \in S, b \in S}

JLine(n) == JArray([j \in 1..n |-> JUint(j - 1)])

SquareMatrix(n) == JArray([i \in 1..n |-> JLine(n)])

\* Lines that make a matrix of n lines invalid.
BadLines(n) ==
    {JOther, JLine(n + 1)} \cup (IF n > 0 THEN {JLine(n - 1)} ELSE {})
    \cup {JArray([j \in 1..n |-> IF j = bad THEN JOther ELSE JUint(0)]) : bad \in 1..n}

BadMatrices ==
    {JOther}
    \cup UNION {{JArray([SquareMatrix(n).value EXCEPT ![i] = line]) :
                    i \in 1..n, line \in BadLines(n)} : n \in 1..MaxMatrixSize}

Unparsable == [type |-> "unparsable", value |-> <<>>]

JDocument(jobs, vehicles, matrix) ==
    JObject([jobs |-> jobs, vehicles |-> vehicles, matrix |-> matrix])

OneVehicle == JArray(<<JVehicle(<<JUint(1)>>, <<JUint(0)>>, <<JUint(0)>>, <<>>, <<>>)>>)

OneJob == JArray(<<JJob(<<JUint(1)>>, <<JUint(0)>>, <<>>)>>)

\* Documents with an explicit matrix: every list of vehicles and of jobs
\* over the square matrices, every invalid matrix, and the documents
\* without jobs or vehicles or that do not parse.
Documents ==
    {JDocument(<<js>>, <<vs>>, <<SquareMatrix(n)>>) :
        js \in JsonLists(JsonJobs), vs \in JsonLists(JsonVehicles), n \in 0..MaxMatrixSize}
    \cup {JDocument(<<OneJob>>, <<OneVehicle>>, <<m>>) : m \in BadMatrices}
    \cup {JDocument(<<>>, <<OneVehicle>>, <<SquareMatrix(1)>>),
          JDocument(<<OneJob>>, <<>>, <<SquareMatrix(1)>>),
          Unparsable}

\* Documents whose last job has a "time_windows" member.
TimedDocuments ==
    {JDocument(<<js>>, <<OneVehicle>>, <<SquareMatrix(1)>>) : js \in TimedJobLists}

\* A "profile" member: none, or a string, the empty one included.
OptionalProfile == {<<>>} \cup {<<JString(str)>> : str \in ProfileStrings \cup {""}}

JProfiled(profile) == JVehicle(<<JUint(1)>>, <<>>, <<>>, profile, <<>>)

\* One to three vehicles that differ in their profile only.
ProfiledVehicleLists ==
    {JArray(<<JProfiled(a)>>) : a \in OptionalProfile}
    \cup {JArray(<<JProfiled(a), JProfiled(b)>>) : a \in OptionalProfile, b \in OptionalProfile}
    \cup {JArray(<<JProfiled(a), JProfiled(b), JProfiled(c)>>) :
             a \in OptionalProfile, b \in OptionalProfile, c \in OptionalProfile}

\* Documents that are valid but for the profiles of their vehicles.
ProfiledDocuments ==
    {JDocument(<<OneJob>>, <<vs>>, <<SquareMatrix(1)>>) : vs \in ProfiledVehicleLists}

\* ---- parse(), one action per loop iteration ----

\* Lines 143-179: the document is parsed, jobs and vehicles are checked,
\* the matrix must be an array.
Begin(doc) ==
    LET p == [pc |-> "matrix", i |-> 0, matrix_size |-> 0, common_profile |-> "",
              input |-> EmptyInput, error |-> NoError]
    IN  IF doc.type = "unparsable"
        THEN Throw(p, "INPUT", "parse error")
        ELSE IF ~HasMember(doc, "jobs") \/ ~IsArray(doc.value["jobs"])
                \/ Len(doc.value["jobs"].value) = 0
        THEN Throw(p, "INPUT", "Invalid jobs.")
        ELSE IF ~HasMember(doc, "vehicles") \/ ~IsArray(doc.value["vehicles"])
                \/ Len(doc.value["vehicles"].value) = 0
        THEN Throw(p, "INPUT", "Invalid vehicles.")
        ELSE IF ~IsArray(doc.value["matrix"])
        THEN Throw(p, "INPUT", "Invalid matrix.")
        ELSE LET matrix_size == Len(doc.value["matrix"].value)
             IN  IF matrix_size = 0
                 THEN [p EXCEPT !.pc = "vehicles"]
                 ELSE [p EXCEPT !.matrix_size = matrix_size]

\* Lines 182-196: line i of the matrix; after the last one the matrix is
\* stored and the vehicles are next.
MatrixLine(p, doc) ==
    LET line == doc.value["matrix"].value[p.i + 1]
    IN  IF ~IsArray(line) \/ Len(line.value) # p.matrix_size
        THEN Throw(p, "INPUT", "Invalid matrix line")
        ELSE IF \E j \in 1..p.matrix_size : ~IsUint(line.value[j])
        THEN Throw(p, "INPUT", "Invalid matrix entry")
        ELSE LET q == [p EXCEPT !.input.matrix =
                          Append(@, [j \in 1..p.matrix_size |-> line.value[j].value])]
             IN  IF p.i + 1 < p.matrix_size
                 THEN [q EXCEPT !.i = p.i + 1]
                 ELSE [q EXCEPT !.pc = "vehicles", !.i = 0]

\* get_amount(): the member, if present, must be an array (of Int64).
AmountError(object, key) ==
    HasMember(object, key) /\ ~IsArray(object.value[key])

\* Lines 206-220 (key "start_index") and 223-236 (key "end_index"): the
\* message of the exception thrown, "" if none.
IndexError(p, json_vehicle, key) ==
    IF ~HasMember(json_vehicle, key)
    THEN ""
    ELSE IF ~IsUint(json_vehicle.value[key])
    THEN "Invalid index for vehicle"
    ELSE IF p.matrix_size <= ToIndex(json_vehicle.value[key].value)
    THEN "index exceeding matrix size for vehicle"
    ELSE ""

\* Lines 239-256: the optional location of a vehicle.
OptionalLocation(json_vehicle, key) ==
    IF HasMember(json_vehicle, key)
    THEN <<ToIndex(json_vehicle.value[key].value)>>
    ELSE <<>>

\* Lines 199 and 281: the next iteration, or `next` after the last one.
Advance(p, size, next) ==
    IF p.i + 1 < size
    THEN [p EXCEPT !.i = p.i + 1]
    ELSE [p EXCEPT !.pc = next, !.i = 0]

\* Lines 269-277: the profile of all vehicles so far.
CheckProfile(p, current_profile, size) ==
    IF p.common_profile = ""
    THEN Advance([p EXCEPT !.common_profile = current_profile], size, "jobs")
    ELSE IF current_profile # p.common_profile
    THEN Throw(p, "INPUT", "Mixed vehicle profiles in input.")
    ELSE Advance(p, size, "jobs")

\* Lines 258-277: the vehicle is added, then its profile is read.
\* get_string() calls GetString() without checking the type: on a
\* non-string value the program stops or goes on with whatever it read.
AddVehicle(p, json_vehicle, size) ==
    LET current_v == [id    |-> json_vehicle.value["id"].value,
                      start |-> OptionalLocation(json_vehicle, "start_index"),
                      end   |-> OptionalLocation(json_vehicle, "end_index")]
        q == [p EXCEPT !.input.vehicles = Append(@, current_v)]
    IN  IF ~HasMember(json_vehicle, "profile")
        THEN {CheckProfile(q, DEFAULT_PROFILE, size)}
        ELSE IF IsString(json_vehicle.value["profile"])
        THEN {CheckProfile(q, json_vehicle.value["profile"].value, size)}
        ELSE {Abort(q)} \cup {CheckProfile(q, str, size) : str \in GarbageStrings}

\* Lines 199-278, one vehicle: the parser states it can end in.
\* valid_vehicle() accepts an id that is a Uint64 and line 204 reads it with
\* GetUint(): on an id that is no Uint the program stops or goes on with
\* the low 32 bits.
VehicleOutcomes(p, doc) ==
    LET vehicles == doc.value["vehicles"].value
        json_vehicle == vehicles[p.i + 1]
        valid_vehicle == /\ IsObject(json_vehicle)
                         /\ HasMember(json_vehicle, "id")
                         /\ IsUint64(json_vehicle.value["id"])
    IN  IF ~valid_vehicle
        THEN {Throw(p, "INPUT", "Invalid vehicle at")}
        ELSE (IF IsUint(json_vehicle.value["id"]) THEN {} ELSE {Abort(p)})
             \cup
             (IF IndexError(p, json_vehicle, "start_index") # ""
              THEN {Throw(p, "INPUT", IndexError(p, json_vehicle, "start_index"))}
              ELSE IF IndexError(p, json_vehicle, "end_index") # ""
              THEN {Throw(p, "INPUT", IndexError(p, json_vehicle, "end_index"))}
              ELSE IF AmountError(json_vehicle, "capacity")
              THEN {Throw(p, "INPUT", "Invalid capacity array.")}
              ELSE AddVehicle(p, json_vehicle, Len(vehicles)))

\* Stands for the largest value of Duration (structures/typedefs.h): above
\* every time a document names.
DurationLimit == MaxTime + 1

\* TimeWindow(): the window a job or vehicle has when none is given.
DefaultTimeWindow == [start |-> 0, end |-> DurationLimit]

\* get_time_window(): whether the value is rejected.
TimeWindowError(tw) ==
    \/ ~IsArray(tw)
    \/ Len(tw.value) < 2
    \/ ~IsUint(tw.value[1])
    \/ ~IsUint(tw.value[2])

\* get_time_window() on an accepted value.
GetTimeWindow(tw) == [start |-> tw.value[1].value, end |-> tw.value[2].value]

\* Order of time windows: by start, then by end.
TimeWindowLess(a, b) ==
    a.start < b.start \/ (a.start = b.start /\ a.end < b.end)

\* std::sort: the windows of tws in ascending order.
RECURSIVE SortTimeWindows(_)
SortTimeWindows(tws) ==
    IF Len(tws) <= 1
    THEN tws
    ELSE LET least == CHOOSE k \in DOMAIN tws :
                          \A l \in DOMAIN tws : ~TimeWindowLess(tws[l], tws[k])
             others == [l \in 1..(Len(tws) - 1) |-> IF l < least THEN tws[l] ELSE tws[l + 1]]
         IN  <<tws[least]>> \o SortTimeWindows(others)

\* get_job_time_windows(): the message of the exception thrown, "" if none.
JobTimeWindowsError(j) ==
    IF ~HasMember(j, "time_windows")
    THEN ""
    ELSE IF ~IsArray(j.value["time_windows"])
    THEN "Invalid time_windows value for job"
    ELSE IF \E k \in DOMAIN j.value["time_windows"].value :
                TimeWindowError(j.value["time_windows"].value[k])
    THEN "Invalid time-window."
    ELSE ""

\* get_job_time_windows() when nothing is thrown: the windows of the array,
\* sorted, or the default window without the member.
GetJobTimeWindows(j) ==
    IF HasMember(j, "time_windows")
    THEN SortTimeWindows([k \in DOMAIN j.value["time_windows"].value |->
                             GetTimeWindow(j.value["time_windows"].value[k])])
    ELSE <<DefaultTimeWindow>>

\* Lines 281-308, one job.
JobOutcome(p, doc) ==
    LET jobs == doc.value["jobs"].value
        json_job == jobs[p.i + 1]
    IN  IF ~IsObject(json_job)
        THEN Throw(p, "INPUT", "Invalid job.")
        ELSE IF ~HasMember(json_job, "id") \/ ~IsUint64(json_job.value["id"])
        THEN Throw(p, "INPUT", "Invalid id for job at")
        ELSE IF ~HasMember(json_job, "location_index")
                \/ ~IsUint(json_job.value["location_index"])
        THEN Throw(p, "INPUT", "Invalid location_index for job")
        ELSE IF p.matrix_size <= json_job.value["location_index"].value
        THEN Throw(p, "INPUT", "location_index exceeding matrix size for job")
        ELSE IF AmountError(json_job, "amount")
        THEN Throw(p, "INPUT", "Invalid amount array.")
        ELSE IF JobTimeWindowsError(json_job) # ""
        THEN Throw(p, "INPUT", JobTimeWindowsError(json_job))
        ELSE LET current_job ==
                     [id |-> json_job.value["id"].value,
                      index |-> ToIndex(json_job.value["location_index"].value),
                      tws |-> GetJobTimeWindows(json_job)]
             IN  Advance([p EXCEPT !.input.jobs = Append(@, current_job)],
                         Len(jobs), "routing")

Routers == {"OSRM", "LIBOSRM", "ORS"}

\* Lines 379-409: the routing wrapper for cl_args.router; `servers` are the
\* profiles cl_args.servers has an entry for and `shared_memory` tells
\* whether libosrm finds its data.
RoutingOutcome(p, router, servers, shared_memory) ==
    IF router = "LIBOSRM"
    THEN IF shared_memory
         THEN [p EXCEPT !.pc = "returned"]
         ELSE Throw(p, "ROUTING", "Invalid shared memory region")
    ELSE IF p.common_profile \notin servers
    THEN Throw(p, "INPUT", "Invalid profile")
    ELSE [p EXCEPT !.pc = "returned"]

ParseBegin ==
    /\ parser.pc = "off"
    /\ (json' \in Documents \/ json' \in TimedDocuments \/ json' \in ProfiledDocuments)
    /\ parser' = Begin(json')
    /\ UNCHANGED ls_vars

ParseMatrixLine ==
    /\ parser.pc = "matrix"
    /\ parser' = MatrixLine(parser, json)
    /\ UNCHANGED <<json, ls_vars>>

ParseVehicle ==
    /\ parser.pc = "vehicles"
    /\ parser' \in VehicleOutcomes(parser, json)
    /\ UNCHANGED <<json, ls_vars>>

ParseJob ==
    /\ parser.pc = "jobs"
    /\ parser' = JobOutcome(parser, json)
    /\ UNCHANGED <<json, ls_vars>>

\* cl_args is read here for the first time.
SetRouting ==
    /\ parser.pc = "routing"
    /\ \E router \in Routers, servers \in SUBSET ProfileStrings, shared_memory \in BOOLEAN :
          parser' = RoutingOutcome(parser, router, servers, shared_memory)
    /\ UNCHANGED <<json, ls_vars>>

ParseNext == ParseBegin \/ ParseMatrixLine \/ ParseVehicle \/ ParseJob \/ SetRouting

ParseSpec == Init /\ [][ParseNext]_vars

\* ----------------------------------------------------------- claim C10 ----

\* The elements of a member that is an array, none otherwise.
Elements(doc, key) ==
    IF HasMember(doc, key) /\ IsArray(doc.value[key])
    THEN {doc.value[key].value[k] : k \in DOMAIN doc.value[key].value}
    ELSE {}

MatrixIsSquare(doc) ==
    /\ HasMember(doc, "matrix")
    /\ IsArray(doc.value["matrix"])
    /\ \A line \in Elements(doc, "matrix") :
          IsArray(line) /\ Len(line.value) = Len(doc.value["matrix"].value)

\* The index the object gives under `key`, if any, is below the matrix size.
IndexInRange(doc, object, key) ==
    (IsObject(object) /\ HasMember(object, key)) =>
        /\ IsUint(object.value[key])
        /\ object.value[key].value < Len(doc.value["matrix"].value)

\* The matrix is square and every index lies within it.
Validated(doc) ==
    /\ IsObject(doc)
    /\ MatrixIsSquare(doc)
    /\ \A v \in Elements(doc, "vehicles") :
          IndexInRange(doc, v, "start_index") /\ IndexInRange(doc, v, "end_index")
    /\ \A j \in Elements(doc, "jobs") : IndexInRange(doc, j, "location_index")

ParseEnded == parser.pc \in {"returned", "error", "aborted"}

\* C10: parse() returns an Input only if the matrix is square and every
\* start_index, end_index and location_index is below the matrix size; in
\* every other case it ends with an INPUT error.
C10_ParseValidates ==
    /\ parser.pc = "returned" => Validated(json)
    /\ (ParseEnded /\ ~Validated(json)) =>
          (parser.pc = "error" /\ parser.error.kind = "INPUT")

\* C10, the part that holds: an Input is returned only for a validated
\* document and holds no index outside its matrix, and an exception thrown
\* for any other document is an INPUT error.
C10_ReturnsOnlyValidated ==
    /\ parser.pc = "returned" =>
          /\ Validated(json)
          /\ \A k \in DOMAIN parser.input.vehicles :
                \A loc \in {parser.input.vehicles[k].start, parser.input.vehicles[k].end} :
                    loc # <<>> => loc[1] < Len(parser.input.matrix)
          /\ \A k \in DOMAIN parser.input.jobs :
                parser.input.jobs[k].index < Len(parser.input.matrix)
    /\ (parser.pc = "error" /\ ~Validated(json)) => parser.error.kind = "INPUT"

\* A document with an index beyond its matrix after a vehicle whose profile
\* is no string: parse() has stopped without an exception.
C10_AbortedOnInvalid ==
    /\ parser.pc = "aborted"
    /\ MatrixIsSquare(json)
    /\ ~Validated(json)
    /\ \A v \in Elements(json, "vehicles") : IsUint(v.value["id"])

\* ----------------------------------------------------------- claim C11 ----

Sorted(tws) ==
    \A k \in 1..(Len(tws) - 1) : ~TimeWindowLess(tws[k + 1], tws[k])

\* The document's job that became job k of the Input.
JsonJobOf(k) == json.value["jobs"].value[k]

C11_TimeWindowsSorted ==
    parser.pc # "off" =>
        \A k \in DOMAIN parser.input.jobs :
            /\ Sorted(parser.input.jobs[k].tws)
            /\ IF HasMember(JsonJobOf(k), "time_windows")
               THEN Len(parser.input.jobs[k].tws) = Len(JsonJobOf(k).value["time_windows"].value)
               ELSE parser.input.jobs[k].tws = <<DefaultTimeWindow>>

\* An Input is returned that holds a job without any time window.
C11_ReturnedWithoutWindows ==
    /\ parser.pc = "returned"
    /\ \E k \in DOMAIN parser.input.jobs : parser.input.jobs[k].tws = <<>>

\* Three windows given out of order were added in order.
C11_SortedThree ==
    /\ parser.pc = "returned"
    /\ \E k \in DOMAIN parser.input.jobs :
          /\ Len(parser.input.jobs[k].tws) = 3
          /\ parser.input.jobs[k].tws[1] # GetTimeWindow(JsonJobOf(k).value["time_windows"].value[1])
          /\ parser.input.jobs[k].tws[1].start = parser.input.jobs[k].tws[2].start
          /\ parser.input.jobs[k].tws[2] # parser.input.jobs[k].tws[3]

\* ----------------------------------------------------------- claim C12 ----

\* The jobs at ranks rank and rank+1 of a route, in order.
EdgeAt(route, rank) == <<At(route, rank), At(route, rank + 1)>>

Reversed(edge) == <<edge[2], edge[1]>>

\* C12: stored_gain is the sum of the two per-side maxima; each flag is set
\* iff the reversed gain of the other side's edge is strictly larger; and
\* apply() places each edge in the orientation whose gain is that side's
\* maximum.
C12_OrientationOfMaximum ==
    /\ (GainKnown \/ pc = "applied") =>
          /\ op.stored_gain = Max(op.normal_s_gain, op.reversed_s_gain)
                              + Max(op.normal_t_gain, op.reversed_t_gain)
          /\ op.reverse_t_edge <=> (op.reversed_s_gain > op.normal_s_gain)
          /\ op.reverse_s_edge <=> (op.reversed_t_gain > op.normal_t_gain)
    /\ pc = "applied" =>
          LET s_placed == EdgeAt(routes[op.s_vehicle], op.s_rank)
              t_placed == EdgeAt(routes[op.t_vehicle], op.t_rank)
              s_before == EdgeAt(pre_routes[op.s_vehicle], op.s_rank)
              t_before == EdgeAt(pre_routes[op.t_vehicle], op.t_rank)
          IN  /\ s_placed = IF op.normal_s_gain >= op.reversed_s_gain
                            THEN t_before ELSE Reversed(t_before)
              /\ t_placed = IF op.normal_t_gain >= op.reversed_t_gain
                            THEN s_before ELSE Reversed(s_before)

C12_Witness ==
    /\ pc = "applied"
    /\ op.reversed_s_gain > op.normal_s_gain
    /\ op.reversed_t_gain = op.normal_t_gain
    /\ EdgeAt(routes[op.s_vehicle], op.s_rank)
         = Reversed(EdgeAt(pre_routes[op.t_vehicle], op.t_rank))
    /\ EdgeAt(routes[op.t_vehicle], op.t_rank)
         = EdgeAt(pre_routes[op.s_vehicle], op.s_rank)
    /\ ~Symmetric(input.matrix)

\* ----------------------------------------------------------- claim C13 ----

\* C13: compute_gain() and is_valid() leave the routes, the Solution State
\* and the instance (matrix included) as they are; a route changes only in
\* apply(); a candidate that is constructed, evaluated and rejected leaves
\* routes and Solution State as they were when it was constructed.
C13_ProbeDiscipline ==
    [][/\ pc \in {"constructed", "gain"} =>
             (routes' = routes /\ sol_state' = sol_state /\ input' = input)
       /\ (pc # "load" /\ routes' # routes) =>
             (pc \in {"checked", "applied"} /\ pc' \in {"applied", "applied_twice"})
       /\ (pc = "checked" /\ pc' = "idle") =>
             (routes' = pre_routes /\ sol_state' = pre_state /\ input' = input)]_vars

\* A candidate evaluated with a positive gain and found invalid.
C13_Witness ==
    /\ pc = "checked"
    /\ ~valid
    /\ op.stored_gain > 0
    /\ op.reverse_s_edge
    /\ routes = pre_routes
    /\ sol_state = pre_state

\* ----------------------------------------------------------- claim C14 ----

\* C14: update_candidates() is {s_vehicle, t_vehicle}, the vehicles whose
\* routes apply() has changed, and once the Solution State of these
\* vehicles is rebuilt every vehicle's arrays equal those built from
\* scratch.
C14_UpdateCandidates ==
    /\ pc = "applied" =>
          /\ UpdateCandidates(op) = {op.s_vehicle, op.t_vehicle}
          /\ \A v \in Vehicles :
                (routes[v] # pre_routes[v]) <=> (v \in UpdateCandidates(op))
    /\ pc = "applied_twice" =>
          \A v \in Vehicles \ UpdateCandidates(op) : routes[v] = pre_routes[v]
    /\ pc = "idle" => sol_state = BuildState(input, routes)

\* Two moves were applied and the state rebuilt: the arrays differ from
\* the initial ones.
C14_Witness ==
    /\ pc = "idle"
    /\ moves = 2
    /\ routes # InitialRoutes
    /\ sol_state = BuildState(input, routes)
    /\ sol_state.edge_costs_around_edge[0] # BuildState(input, InitialRoutes).edge_costs_around_edge[0]
    /\ sol_state.fwd_amounts[1] # BuildState(input, InitialRoutes).fwd_amounts[1]

\* ----------------------------------------------------------- claim C15 ----

\* The profile strings of the document's vehicles, the default profile for
\* a vehicle without the member.
Profiles(doc) ==
    {IF HasMember(v, "profile") THEN v.value["profile"].value ELSE DEFAULT_PROFILE :
        v \in {x \in Elements(doc, "vehicles") :
                  IsObject(x) /\ (HasMember(x, "profile") => IsString(x.value["profile"]))}}

\* Every vehicle of the document has a string, or nothing, as its profile.
StringProfiles(doc) ==
    \A v \in Elements(doc, "vehicles") :
        IsObject(v) /\ (HasMember(v, "profile") => IsString(v.value["profile"]))

MixedProfiles == "Mixed vehicle profiles in input."

\* C15: a document whose vehicles differ in their profile string ends with
\* the INPUT error "Mixed vehicle profiles in input.", whatever the order
\* and the strings, and the vehicles of a returned Input share one profile.
C15_MixedProfilesRejected ==
    /\ (parser.pc = "returned" /\ StringProfiles(json)) => Cardinality(Profiles(json)) = 1
    /\ (ParseEnded /\ json \in ProfiledDocuments /\ Cardinality(Profiles(json)) > 1) =>
          /\ parser.pc = "error"
          /\ parser.error = [kind |-> "INPUT", msg |-> MixedProfiles]

\* C15, the part that holds: the claim for documents in which no vehicle
\* has the empty string as its profile, and the error is raised only for
\* vehicles that differ.
C15_NonEmptyProfilesRejected ==
    /\ (ParseEnded /\ json \in ProfiledDocuments /\ "" \notin Profiles(json)) =>
          IF Cardinality(Profiles(json)) > 1
          THEN parser.pc = "error" /\ parser.error = [kind |-> "INPUT", msg |-> MixedProfiles]
          ELSE parser.error.msg # MixedProfiles
    /\ (parser.pc = "error" /\ parser.error.msg = MixedProfiles /\ StringProfiles(json)) =>
          Cardinality(Profiles(json)) > 1
    /\ (parser.pc = "returned" /\ StringProfiles(json) /\ "" \notin Profiles(json)) =>
          Profiles(json) = {parser.common_profile}

\* An Input is returned for vehicles with the profiles "" and "bike".
C15_ReturnedMixed ==
    /\ parser.pc = "returned"
    /\ Profiles(json) = {"", "bike"}
    /\ parser.common_profile = "bike"

\* ----------------------------------------------------------- claim C16 ----

\* The jobs a route holds at the two positions of the edge starting at rank.
EdgeJobs(route, rank) == {At(route, rank), At(route, rank + 1)}

\* C16: apply() keeps the length of both routes and the job at every
\* position outside the two edges, puts at the positions of the source
\* edge exactly the two jobs the target edge held (and the other way
\* round), and leaves the routes of all other vehicles as they were.
C16_ApplyFrame ==
    pc = "applied" =>
        LET s_route == routes[op.s_vehicle]
            t_route == routes[op.t_vehicle]
            s_before == pre_routes[op.s_vehicle]
            t_before == pre_routes[op.t_vehicle]
        IN  /\ Size(s_route) = Size(s_before)
            /\ Size(t_route) = Size(t_before)
            /\ \A r \in (0 .. Size(s_before) - 1) \ {op.s_rank, op.s_rank + 1} :
                   At(s_route, r) = At(s_before, r)
            /\ \A r \in (0 .. Size(t_before) - 1) \ {op.t_rank, op.t_rank + 1} :
                   At(t_route, r) = At(t_before, r)
            /\ EdgeJobs(s_route, op.s_rank) = EdgeJobs(t_before, op.t_rank)
            /\ EdgeJobs(t_route, op.t_rank) = EdgeJobs(s_before, op.s_rank)
            /\ Cardinality(EdgeJobs(s_route, op.s_rank)) = 2
            /\ Cardinality(EdgeJobs(t_route, op.t_rank)) = 2
            /\ \A v \in Vehicles \ {op.s_vehicle, op.t_vehicle} : routes[v] = pre_routes[v]

\* A three-job source route whose last two jobs went, reversed, to a target
\* route, next to a third vehicle that holds a job.
C16_Witness ==
    /\ pc = "applied"
    /\ Size(routes[op.s_vehicle]) = 3 /\ op.s_rank = 1
    /\ op.reverse_s_edge /\ ~op.reverse_t_edge
    /\ At(routes[op.t_vehicle], op.t_rank) = At(pre_routes[op.s_vehicle], op.s_rank + 1)
    /\ \E v \in Vehicles \ {op.s_vehicle, op.t_vehicle} : Size(routes[v]) > 0

\* ----------------------------------------------------------- claim C17 ----

\* The ranks at which compute_gain(), is_valid() and apply() read or write
\* the route of one side: the edge, the job before it unless the edge is
\* first, the job after it unless the edge is last.
RouteAccesses(route, rank) ==
    {rank, rank + 1}
    \cup (IF rank = 0 THEN {} ELSE {rank - 1})
    \cup (IF rank = Size(route) - 2 THEN {} ELSE {rank + 2})

HasOperator == pc \in {"constructed", "gain", "checked", "applied", "applied_twice"}

\* C17: for an operator that passed the constructor's assertions, every
\* rank at which the three methods access a route lies within that route,
\* and the assertions still hold for the same ranks once apply() has run.
C17_IndexSafety ==
    HasOperator =>
        /\ \A r \in RouteAccesses(routes[op.s_vehicle], op.s_rank) :
               0 <= r /\ r < Size(routes[op.s_vehicle])
        /\ \A r \in RouteAccesses(routes[op.t_vehicle], op.t_rank) :
               0 <= r /\ r < Size(routes[op.t_vehicle])
        /\ Precondition(routes, op.s_vehicle, op.s_rank, op.t_vehicle, op.t_rank)

\* An applied operator on the last edge of a three-job route and on the
\* only edge of a two-job route.
C17_Witness ==
    /\ pc = "applied"
    /\ Size(routes[op.s_vehicle]) = 3 /\ op.s_rank = 1
    /\ Size(routes[op.t_vehicle]) = 2 /\ op.t_rank = 0
    /\ routes # pre_routes

====
